---- MODULE Spec2Model ----
(***************************************************************************)
(* Model of cc0::allocator (src/alloc.h, src/alloc.cpp): an in-place,      *)
(* first-fit allocator that keeps its block headers inside the caller's    *)
(* buffer.                                                                 *)
(*                                                                         *)
(* Addresses are byte offsets from m_mem (the buffer base is 0, nullptr is *)
(* NULL).  Block has two uint32_t fields, so the memory is modelled as an  *)
(* array of 32-bit words; every address the model forms is a multiple of   *)
(* WordBytes.  A 32-bit word is the record [hi, lo]: hi is bit 31 (the     *)
(* occupied flag of size_flags), lo the low 31 bits, so that arithmetic    *)
(* modulo 2^32 and 2^31 is exact.                                          *)
(***************************************************************************)
EXTENDS Integers, Sequences, FiniteSets, TLC

\* ------------------------------------------------------------- bounds
\* Buffer sizes run from 72 bytes (one header and 64 bytes) to MaxCells
\* units of DefaultAlign bytes.
MaxCells == 9
\* Number of steps (calls of alloc and free, stores by callers) in one run.
MaxOps == 6
\* Number of words the callers store into their live allocations in one run.
MaxWrites == 1

\* ---------------------------------------------------- program constants
WordBytes == 4
SizeofBlock == 8
Max31 == 2147483647
NULL == -1
DefaultAlign == 8

VARIABLES
    m_size,             \* uint32_t m_size
    m_align_bytes,      \* uint32_t m_align_bytes
    m_block_alignment,  \* uint32_t m_block_alignment (the header footprint)
    m_occupied,         \* uint32_t m_occupied, as a 32-bit word
    mem,                \* the bytes m_mem[0 .. m_size), as words, plus the
                        \* one word that follows the buffer
    live,               \* pointers returned by alloc and not freed since:
                        \* pointer -> [req, size] (history)
    call,               \* the last call, what it returned and m_occupied
                        \* before it (history)
    ops,                \* steps made so far: calls and caller stores
    writes,             \* caller stores made so far
    status              \* "run", or "crashed" after a null dereference

vars == <<m_size, m_align_bytes, m_block_alignment, m_occupied, mem, live,
          call, ops, writes, status>>

\* ------------------------------------------------------- 32-bit words
Word(h, l) == [hi |-> h, lo |-> l]
Zero == Word(0, 0)

\* x + n modulo 2^32, for a word x and 0 <= n < 2^31.
Add32(x, n) ==
    IF x.lo <= Max31 - n
    THEN Word(x.hi, x.lo + n)
    ELSE Word(1 - x.hi, x.lo - (Max31 - n) - 1)

\* x - n modulo 2^32, for a word x and 0 <= n < 2^31.
Sub32(x, n) ==
    IF x.lo >= n
    THEN Word(x.hi, x.lo - n)
    ELSE Word(1 - x.hi, (Max31 - n) + x.lo + 1)

\* (x + y) & 0x7fffffff for 0 <= x, y < 2^31.
Add31(x, y) ==
    IF x <= Max31 - y THEN x + y ELSE x - (Max31 - y) - 1

\* ------------------------------------------------------------- memory
\* The word at byte address a of memory image m.
Rd(m, a) == m[a \div WordBytes]
Wr(m, a, w) == [m EXCEPT ![a \div WordBytes] = w]

\* Block::size_flags is the word at b, Block::prev the word at b + 4.
PrevField(b) == b + WordBytes

\* -------------------------------------------------- private helpers
get_size(m, b) == Rd(m, b).lo

is_free(m, b) == Rd(m, b).hi = 0

is_occupied(m, b) == Rd(m, b).hi # 0

set_free(m, b) == Wr(m, b, Word(0, Rd(m, b).lo))

set_occupied(m, b) == Wr(m, b, Word(1, Rd(m, b).lo))

\* size is below 2^31 wherever the model calls this, so size & 0x7fffffff
\* is size.
set_size(m, b, size) == Wr(m, b, Word(Rd(m, b).hi, size))

\* p = b - b->prev; null when p < m_mem or b->prev = 0.
get_prev(m, b) ==
    LET pv == Rd(m, PrevField(b))
    IN  IF pv.hi = 1 \/ pv.lo > b THEN NULL
        ELSE IF pv.lo > 0 THEN b - pv.lo ELSE NULL

\* p = b + get_size(b); null when p >= m_mem + m_size or the size is 0.
get_next(m, b) ==
    LET next == get_size(m, b)
    IN  IF next >= m_size - b THEN NULL
        ELSE IF next > 0 THEN b + next ELSE NULL

\* num_bytes is below 2^31 here, so no step of the computation wraps.
align_num_bytes(num_bytes) ==
    (num_bytes \div m_align_bytes) * m_align_bytes
    + m_align_bytes * (IF num_bytes % m_align_bytes > 0 THEN 1 ELSE 0)

\* ------------------------------------------------------- constructor
\* The memory after memset and the first header; the word after the buffer
\* (index size / 4) is not the allocator's and holds guard.
InitialMemory(size, block_alignment, guard) ==
    LET zeroed == [i \in 0..(size \div WordBytes) |->
                     IF i = size \div WordBytes THEN guard ELSE Zero]
        b == 0
        m1 == Wr(zeroed, PrevField(b), Zero)
        m2 == Wr(m1, b, Word(Rd(m1, b).hi, size - block_alignment))
    IN  Wr(m2, b, Word(0, Rd(m2, b).lo))

\* --------------------------------------------------------------- alloc
\* The loop of alloc: the first block from b on that is free and large
\* enough, or NULL.
\* Mutant of first_fit: a free block of exactly the rounded size is skipped.
RECURSIVE first_fit_strict(_, _, _)
first_fit_strict(m, b, num_bytes) ==
    IF b # NULL /\ (is_occupied(m, b) \/ get_size(m, b) <= num_bytes)
    THEN first_fit_strict(m, get_next(m, b), num_bytes)
    ELSE b

RECURSIVE first_fit(_, _, _)
first_fit(m, b, num_bytes) ==
    IF b # NULL /\ (is_occupied(m, b) \/ get_size(m, b) < num_bytes)
    THEN first_fit(m, get_next(m, b), num_bytes)
    ELSE b

\* alloc after the zero test.  fault is TRUE when the split dereferences a
\* null n (get_next(b) = nullptr): the stores through n then miss the
\* buffer, and the result is what alloc yields if the program survives them.
alloc_nonzero(m, occ, num_bytes0) ==
    LET num_bytes == align_num_bytes(num_bytes0)
        b == first_fit(m, 0, num_bytes)
    IN  IF b = NULL
        THEN [mem |-> m, occ |-> occ, ret |-> NULL, fault |-> FALSE]
        ELSE
          LET m1 == set_occupied(m, b)
          IN  IF get_size(m1, b) >= num_bytes + m_align_bytes + m_block_alignment
              THEN
                LET free_size == get_size(m1, b) - num_bytes - m_block_alignment
                    m2 == set_size(m1, b, num_bytes)
                    n == get_next(m2, b)
                    m3 == IF n = NULL THEN m2
                          ELSE Wr(set_size(set_free(m2, n), n, free_size),
                                  PrevField(n), Word(0, num_bytes))
                    occ1 == Add32(occ, m_block_alignment)
                IN  [mem |-> m3,
                     occ |-> Add32(occ1, get_size(m3, b)),
                     ret |-> b + m_block_alignment,
                     fault |-> n = NULL]
              ELSE [mem |-> m1,
                    occ |-> Add32(occ, get_size(m1, b)),
                    ret |-> b + m_block_alignment,
                    fault |-> FALSE]

\* Mutant of alloc: the zero test of lines 79-81 is missing.
alloc_no_zero_test(m, occ, num_bytes) == alloc_nonzero(m, occ, num_bytes)

alloc(m, occ, num_bytes) ==
    IF num_bytes = 0
    THEN [mem |-> m, occ |-> occ, ret |-> NULL, fault |-> FALSE]
    ELSE alloc_nonzero(m, occ, num_bytes)

\* ---------------------------------------------------------------- free
\* free from line 114 on: b is the header address, inside the buffer.
free_block(m, occ, b0) ==
    LET m1 == set_free(m, b0)
        occ1 == Sub32(occ, get_size(m1, b0))
        p == get_prev(m1, b0)
        back == p # NULL /\ is_free(m1, p)
        m2 == IF back
              THEN set_size(m1, p, Add31(get_size(m1, b0), get_size(m1, p)))
              ELSE m1
        b == IF back THEN p ELSE b0
        n == get_next(m2, b)
        fwd == n # NULL /\ is_free(m2, n)
        m3 == IF fwd
              THEN set_size(m2, b, Add31(get_size(m2, b), get_size(m2, n)))
              ELSE m2
        remove_block == back \/ fwd
    IN  [mem |-> m3,
         occ |-> IF remove_block THEN Sub32(occ1, m_block_alignment) ELSE occ1]

free(m, occ, ptr) ==
    LET hdr == ptr - m_block_alignment
    IN  IF hdr >= m_size \/ hdr < 0
        THEN [mem |-> m, occ |-> occ]
        ELSE free_block(m, occ, hdr)

occupied_bytes == m_occupied

total_bytes == m_size

\* ------------------------------------------------------------ inputs
\* align_bytes given to the constructor.
Aligns == {4, 8, 16}
\* num_bytes given to alloc.
Requests == {0, 1, 16, 64}
\* Words a caller stores into memory it was given: they read as free
\* headers of 8 and of 64 bytes.
UserWords == {Word(0, 8), Word(0, 64)}
\* Where in its num_bytes bytes a caller stores a word: at the start, and
\* where the last two words start.
StoreOffsets(num_bytes) == {0, num_bytes - SizeofBlock}
\* What the word after the buffer may hold.
GuardWords == {Zero, Word(0, 8)}
\* size given to the constructor: from 72 bytes (with the default alignment,
\* one header and 64 bytes) on.
BufSizes == {DefaultAlign * c : c \in 9..MaxCells}
\* Pointers outside [m_mem, m_mem + m_size) handed to free.
OutsidePtrs ==
    {0 - 2 * DefaultAlign, 0 - WordBytes, m_size, m_size + WordBytes,
     m_size + DefaultAlign, m_size + 2 * DefaultAlign, m_size + 3 * DefaultAlign}

\* ------------------------------------------------------------ actions
\* allocator(mem, size, align_bytes), lines 65-75.
Init ==
    \E size \in BufSizes,
       align_bytes \in Aligns, guard \in GuardWords :
       /\ m_size = size
       /\ m_align_bytes = (IF align_bytes > 0 THEN align_bytes ELSE 1)
       /\ m_block_alignment = align_num_bytes(SizeofBlock)
       /\ mem = InitialMemory(m_size, m_block_alignment, guard)
       /\ m_occupied = Add32(Zero, m_block_alignment)
       /\ live = <<>>
       /\ call = [op |-> "init", arg |-> 0, ret |-> NULL, occ0 |-> Zero]
       /\ ops = 0
       /\ writes = 0
       /\ status = "run"

\* p = alloc(num_bytes).  A null dereference inside alloc either kills the
\* program or, where address 0 is writable, lets it go on.
Alloc(num_bytes) ==
    /\ status = "run"
    /\ ops < MaxOps
    /\ LET r == alloc(mem, m_occupied, num_bytes)
       IN  \E survives \in (IF r.fault THEN BOOLEAN ELSE {TRUE}) :
             /\ mem' = r.mem
             /\ status' = (IF survives THEN "run" ELSE "crashed")
             /\ m_occupied' = (IF survives THEN r.occ ELSE m_occupied)
             /\ call' = [op |-> "alloc", arg |-> num_bytes,
                         ret |-> IF survives THEN r.ret ELSE NULL,
                         occ0 |-> m_occupied]
             /\ live' = (IF survives /\ r.ret # NULL
                         THEN (r.ret :> [req |-> num_bytes,
                                         size |-> align_num_bytes(num_bytes)])
                              @@ live
                         ELSE live)
    /\ ops' = ops + 1
    /\ UNCHANGED <<m_size, m_align_bytes, m_block_alignment, writes>>

\* free(ptr) of a pointer that alloc returned and that was not freed since.
Free(ptr) ==
    /\ status = "run"
    /\ ops < MaxOps
    /\ ptr \in DOMAIN live
    /\ LET r == free(mem, m_occupied, ptr)
       IN  /\ mem' = r.mem
           /\ m_occupied' = r.occ
    /\ live' = [q \in DOMAIN live \ {ptr} |-> live[q]]
    /\ call' = [op |-> "free", arg |-> ptr, ret |-> NULL, occ0 |-> m_occupied]
    /\ ops' = ops + 1
    /\ UNCHANGED <<m_size, m_align_bytes, m_block_alignment, writes, status>>

\* free(ptr) of a pointer outside the buffer that is no live pointer.
FreeOutside(ptr) ==
    /\ status = "run"
    /\ ops < MaxOps
    /\ ptr \notin DOMAIN live
    /\ LET r == free(mem, m_occupied, ptr)
       IN  /\ mem' = r.mem
           /\ m_occupied' = r.occ
    /\ call' = [op |-> "free_outside", arg |-> ptr, ret |-> NULL, occ0 |-> m_occupied]
    /\ ops' = ops + 1
    /\ UNCHANGED <<m_size, m_align_bytes, m_block_alignment, live, writes,
                   status>>

\* A caller stores the word w at offset off of the num_bytes bytes it asked
\* for at ptr.
Store(ptr, off, w) ==
    /\ status = "run"
    /\ ops < MaxOps
    /\ writes < MaxWrites
    /\ ptr \in DOMAIN live
    /\ off >= 0
    /\ off + WordBytes <= live[ptr].req
    /\ (ptr + off) \div WordBytes \in DOMAIN mem
    /\ mem' = Wr(mem, ptr + off, w)
    /\ writes' = writes + 1
    /\ call' = [op |-> "store", arg |-> ptr + off, ret |-> NULL, occ0 |-> m_occupied]
    /\ ops' = ops + 1
    /\ UNCHANGED <<m_size, m_align_bytes, m_block_alignment, m_occupied, live,
                   status>>

AllocStep == \E num_bytes \in Requests : Alloc(num_bytes)
FreeStep == \E ptr \in DOMAIN live : Free(ptr)
FreeOutsideStep == \E ptr \in OutsidePtrs : FreeOutside(ptr)
StoreStep ==
    \E ptr \in DOMAIN live, w \in UserWords :
      \E off \in StoreOffsets(live[ptr].req) : Store(ptr, off, w)

\* Callers that keep to the contract of free.
Next == AllocStep \/ FreeStep \/ StoreStep

Spec == Init /\ [][Next]_vars

\* Callers that also free pointers outside the buffer.
NextOutside == AllocStep \/ FreeStep \/ StoreStep \/ FreeOutsideStep

SpecOutside == Init /\ [][NextOutside]_vars

\* ------------------------------------------------------------ blocks
\* The headers alloc's loop visits: from the base on, by get_next.
RECURSIVE walk(_, _)
walk(m, b) == IF b = NULL THEN <<>> ELSE <<b>> \o walk(m, get_next(m, b))

Range(seq) == {seq[i] : i \in 1..Len(seq)}

\* The blocks of the buffer: the headers visited, without a header of size 0
\* (get_next goes no further from it; zeroed memory reads as one).
Blocks(m) == SelectSeq(walk(m, 0), LAMBDA b : get_size(m, b) > 0)

\* The bytes [a, a + n) and [b, b + k) have a byte in common.
Overlap(a, n, b, k) == n > 0 /\ k > 0 /\ a < b + k /\ b < a + n

RECURSIVE SumExtents(_, _)
SumExtents(m, bs) ==
    IF bs = <<>> THEN 0
    ELSE m_block_alignment + get_size(m, Head(bs)) + SumExtents(m, Tail(bs))

\* The plainest use: the default alignment, and callers that store nothing
\* in their allocations.
Quiet == status = "run" /\ writes = 0 /\ m_align_bytes = DefaultAlign

\* The step is a call of op (no stutter, no store).
Called(op) == ops' = ops + 1 /\ call'.op = op

\* ------------------------------------------------------------ claims

\* C1 (as claimed): the blocks reached from the base tile [base, base+size):
\* the first starts at base, each next one starts header_footprint +
\* payload size after the one before, the last one ends at base + size, and
\* the extents add up to total_bytes().
C1_Tiling ==
    Quiet =>
      LET bs == Blocks(mem)
      IN  /\ Len(bs) >= 1
          /\ bs[1] = 0
          /\ \A i \in 1..(Len(bs) - 1) :
               bs[i + 1] = bs[i] + m_block_alignment + get_size(mem, bs[i])
          /\ bs[Len(bs)] + m_block_alignment + get_size(mem, bs[Len(bs)])
               = m_size
          /\ SumExtents(mem, bs) = total_bytes

\* C2 (as claimed): the rounded ranges of two live pointers are disjoint, lie
\* inside the buffer, and hold no byte of a block header.
C2_LiveDisjoint ==
    Quiet =>
      /\ \A p1, p2 \in DOMAIN live :
           p1 # p2 => ~Overlap(p1, live[p1].size, p2, live[p2].size)
      /\ \A p \in DOMAIN live : 0 <= p /\ p + live[p].size <= m_size
      /\ \A p \in DOMAIN live : \A b \in Range(Blocks(mem)) :
           ~Overlap(p, live[p].size, b, SizeofBlock)

\* C3 (as claimed): once every pointer returned has been freed, the buffer is
\* one free block of size - header_footprint bytes with prev 0, and
\* occupied_bytes() is one header footprint, as after construction.
C3_FullCoalescing ==
    (Quiet /\ DOMAIN live = {}) =>
      /\ Rd(mem, 0) = Word(0, m_size - m_block_alignment)
      /\ Rd(mem, PrevField(0)) = Zero
      /\ Blocks(mem) = <<0>>
      /\ occupied_bytes = Word(0, m_block_alignment)

\* The lowest free block of at least r bytes among the headers the scan can
\* reach in m, or NULL.
LowestFit(m, r) ==
    LET fits == {b \in Range(walk(m, 0)) : is_free(m, b) /\ get_size(m, b) >= r}
    IN  IF fits = {} THEN NULL
        ELSE CHOOSE b \in fits : \A c \in fits : b <= c

C5_RoundTrip ==
    [][(Quiet /\ call.op = "alloc" /\ call.ret # NULL
        /\ Called("free") /\ call'.arg = call.ret) =>
         occupied_bytes' = call.occ0]_vars

\* C6 (as claimed): occupied_bytes() <= total_bytes() in every state; the
\* counter never wraps below zero.
C6_OccupiedBounded ==
    Quiet => (occupied_bytes.hi = 0 /\ occupied_bytes.lo <= total_bytes)

\* C7 (as claimed): right after free(p) of a live pointer no two consecutive
\* blocks of the buffer are both free.
C7_NoAdjacentFree ==
    (Quiet /\ call.op = "free") =>
      LET bs == Blocks(mem)
      IN  \A i \in 1..(Len(bs) - 1) :
            ~(is_free(mem, bs[i]) /\ is_free(mem, bs[i + 1]))

\* C8 (as claimed, for the pointer p = base + size it names): free(p) changes
\* neither occupied_bytes() nor any word of the buffer.
C8_OutsideFreeNoOp ==
    [][(Called("free_outside") /\ call'.arg = m_size
        /\ m_align_bytes = DefaultAlign) =>
         (occupied_bytes' = occupied_bytes /\ mem' = mem)]_vars

\* C9 (as claimed): in a buffer of header_footprint + 64 bytes with alignment
\* 8 the first alloc(64) returns base + header_footprint, and while that
\* allocation is live every alloc(k), k >= 1, returns null, whatever the
\* caller stored in the 64 bytes.
C9_ExactlyFull ==
    [][(/\ m_align_bytes = 8
        /\ m_size = m_block_alignment + 64
        /\ Called("alloc")
        /\ status' = "run") =>
         /\ (ops = 0 /\ call'.arg = 64) =>
               call'.ret = m_block_alignment
         /\ (m_block_alignment \in DOMAIN live
             /\ live[m_block_alignment].req = 64
             /\ call'.arg >= 1) =>
               call'.ret = NULL]_vars

\* C10: alloc(0) returns null and leaves occupied_bytes(), total_bytes() and
\* every word of the buffer unchanged.
C10_AllocZero ==
    [][(Called("alloc") /\ call'.arg = 0) =>
         /\ call'.ret = NULL
         /\ occupied_bytes' = occupied_bytes
         /\ total_bytes' = total_bytes
         /\ mem' = mem
         /\ status' = status]_vars

\* C10's case: alloc(0) has returned while allocations are live and blocks
\* have been split.
C10_Witness ==
    /\ call.op = "alloc" /\ call.arg = 0 /\ call.ret = NULL
    /\ DOMAIN live # {}
    /\ Len(Blocks(mem)) >= 2

\* ------------------------------------------- construction, any size
\* The constructor takes size as a uint32_t, so here m_size is a 32-bit
\* word, and mem holds the first words of the buffer only: at most
\* MaxWindow of them (memset zeroes the rest alike).
MaxWindow == 4

\* size given to the constructor: small ones, and ones around 2^31 and up
\* to 2^32 - 4.
AnySizes ==
    {Word(0, WordBytes * c) : c \in 2..(2 * MaxCells)}
    \cup {Word(0, Max31 - 3), Word(1, 0), Word(1, 4), Word(1, 8), Word(1, 12),
          Word(1, 16), Word(1, 72), Word(1, Max31 - 3)}

\* align_bytes given to the constructor.
AnyAligns == {0, 1, 2, 3, 4, 5, 8, 16, 32}

\* The first words of the buffer after memset and the first header, for a
\* size of 32 bits: set_size keeps the low 31 bits of
\* m_size - m_block_alignment.
InitialWindow(size, block_alignment) ==
    LET words == IF size.hi = 1 \/ size.lo \div WordBytes > MaxWindow
                 THEN MaxWindow ELSE size.lo \div WordBytes
        zeroed == [i \in 0..(words - 1) |-> Zero]
        b == 0
        m1 == Wr(zeroed, PrevField(b), Zero)
        m2 == Wr(m1, b, Word(Rd(m1, b).hi, Sub32(size, block_alignment).lo))
    IN  Wr(m2, b, Word(0, Rd(m2, b).lo))

\* allocator(mem, size, align_bytes), lines 65-75, for every size that
\* holds one header.
InitAnySize ==
    \E size \in AnySizes, align_bytes \in AnyAligns :
       /\ m_size = size
       /\ m_align_bytes = (IF align_bytes > 0 THEN align_bytes ELSE 1)
       /\ m_block_alignment = align_num_bytes(SizeofBlock)
       /\ size.hi = 1 \/ size.lo >= m_block_alignment
       /\ mem = InitialWindow(m_size, m_block_alignment)
       /\ m_occupied = Add32(Zero, m_block_alignment)
       /\ live = <<>>
       /\ call = [op |-> "init",
                  arg |-> [size |-> size, align_bytes |-> align_bytes],
                  ret |-> NULL, occ0 |-> Zero]
       /\ ops = 0
       /\ writes = 0
       /\ status = "run"

\* n = occupied_bytes().
OccupiedBytes ==
    /\ ops < MaxOps
    /\ call' = [call EXCEPT !.op = "occupied_bytes", !.ret = occupied_bytes]
    /\ ops' = ops + 1
    /\ UNCHANGED <<m_size, m_align_bytes, m_block_alignment, m_occupied, mem,
                   live, writes, status>>

\* n = total_bytes().
TotalBytes ==
    /\ ops < MaxOps
    /\ call' = [call EXCEPT !.op = "total_bytes", !.ret = total_bytes]
    /\ ops' = ops + 1
    /\ UNCHANGED <<m_size, m_align_bytes, m_block_alignment, m_occupied, mem,
                   live, writes, status>>

NextAnySize == OccupiedBytes \/ TotalBytes

SpecAnySize == InitAnySize /\ [][NextAnySize]_vars

\* C11 (as claimed): after allocator(mem, size, align_bytes) with any size
\* of at least one header footprint and any align_bytes >= 0, the alignment
\* is align_bytes (1 for 0), the header footprint is 8 rounded up to a
\* multiple of it, the buffer is zero but for one free block at the base
\* with prev 0 and size - header_footprint bytes, occupied_bytes() is the
\* header footprint and total_bytes() is size.
C11_Construction ==
    LET size == call.arg.size
        align_bytes == call.arg.align_bytes
        align == IF align_bytes = 0 THEN 1 ELSE align_bytes
    IN  /\ m_align_bytes = align
        /\ m_block_alignment % align = 0
        /\ m_block_alignment >= SizeofBlock
        /\ m_block_alignment < SizeofBlock + align
        /\ is_free(mem, 0)
        /\ Word(0, get_size(mem, 0)) = Sub32(size, m_block_alignment)
        /\ Rd(mem, PrevField(0)) = Zero
        /\ \A i \in DOMAIN mem : i * WordBytes # 0 => mem[i] = Zero
        /\ call.op = "occupied_bytes" => call.ret = Word(0, m_block_alignment)
        /\ call.op = "total_bytes" => call.ret = size

\* The payload sizes of the occupied blocks among bs, added up.
RECURSIVE SumOccupied(_, _)
SumOccupied(m, bs) ==
    IF bs = <<>> THEN 0
    ELSE (IF is_occupied(m, Head(bs)) THEN get_size(m, Head(bs)) ELSE 0)
         + SumOccupied(m, Tail(bs))

\* C12 (as claimed): in every state reached by calls of alloc and of free on
\* live pointers, occupied_bytes() is the payload sizes of the occupied
\* blocks added up, plus one header footprint for every block of the buffer.
C12_CounterMeaning ==
    Quiet =>
      LET bs == Blocks(mem)
      IN  occupied_bytes
            = Word(0, SumOccupied(mem, bs) + m_block_alignment * Len(bs))

\* The place of block b in the sequence bs (b is in bs).
IndexOf(bs, b) == CHOOSE i \in 1..Len(bs) : bs[i] = b

\* C13 (as claimed): free(p) of a live block whose previous and next blocks
\* are both free leaves one free block at the previous block's address, of
\* the three payload sizes plus two header footprints, and occupied_bytes()
\* goes down by the freed payload size plus two header footprints; with one
\* free neighbour the merged block has the two payload sizes plus one header
\* footprint and occupied_bytes() goes down by the freed payload size plus
\* one header footprint.
C13_Coalescing ==
    [][(Quiet /\ Called("free")
        /\ (call'.arg - m_block_alignment) \in Range(Blocks(mem))) =>
         LET H == m_block_alignment
             b == call'.arg - H
             bs == Blocks(mem)
             i == IndexOf(bs, b)
             prev_free == i > 1 /\ is_free(mem, bs[i - 1])
             next_free == i < Len(bs) /\ is_free(mem, bs[i + 1])
             S == get_size(mem, b)
             P == get_size(mem, bs[i - 1])
             N == get_size(mem, bs[i + 1])
         IN  /\ (prev_free /\ next_free) =>
                  /\ Rd(mem', bs[i - 1]) = Word(0, P + S + N + 2 * H)
                  /\ occupied_bytes' = Sub32(occupied_bytes, S + 2 * H)
             /\ (prev_free /\ ~next_free) =>
                  /\ Rd(mem', bs[i - 1]) = Word(0, P + S + H)
                  /\ occupied_bytes' = Sub32(occupied_bytes, S + H)
             /\ (~prev_free /\ next_free) =>
                  /\ Rd(mem', b) = Word(0, S + N + H)
                  /\ occupied_bytes' = Sub32(occupied_bytes, S + H)]_vars

\* C14 (as claimed): in every state the first block has prev 0, and every
\* block n that follows a block b in the buffer has n.prev = n - b, that is
\* get_prev(get_next(b)) = b.
C14_BackLinks ==
    Quiet =>
      LET bs == Blocks(mem)
      IN  /\ Rd(mem, PrevField(0)) = Zero
          /\ \A i \in 1..(Len(bs) - 1) :
               /\ Rd(mem, PrevField(bs[i + 1])) = Word(0, bs[i + 1] - bs[i])
               /\ get_prev(mem, get_next(mem, bs[i])) = bs[i]

\* C15 (as claimed): alloc(n) that selects a free block b of S bytes, with r
\* the rounded n: if S >= r + align + header_footprint, b becomes occupied
\* with r bytes, a free block of S - r - header_footprint bytes begins right
\* after b's payload, and occupied_bytes() grows by r + header_footprint;
\* otherwise b becomes occupied with its S bytes, no block is made and
\* occupied_bytes() grows by S.  No other block changes size or flag.
C15_SplitPolicy ==
    [][(Quiet /\ Called("alloc") /\ call'.ret # NULL /\ status' = "run") =>
         LET H == m_block_alignment
             b == call'.ret - H
             S == get_size(mem, b)
             r == align_num_bytes(call'.arg)
             new == b + H + r
             split == S >= r + m_align_bytes + H
         IN  /\ split =>
                  /\ Rd(mem', b) = Word(1, r)
                  /\ Rd(mem', new) = Word(0, S - r - H)
                  /\ occupied_bytes' = Add32(occupied_bytes, r + H)
             /\ ~split =>
                  /\ Rd(mem', b) = Word(1, S)
                  /\ Len(Blocks(mem')) = Len(Blocks(mem))
                  /\ occupied_bytes' = Add32(occupied_bytes, S)
             /\ \A c \in Range(Blocks(mem)) \ {b, new} :
                  Rd(mem', c) = Rd(mem, c)]_vars

\* C16 (as claimed): in every state a block's occupied bit is 1 exactly when
\* the address just past its header is a live pointer, and the block of
\* every live pointer is marked occupied and is one of the buffer's blocks
\* (no free has marked it free or merged it into a free block).
C16_FlagAccuracy ==
    (status = "run" /\ m_align_bytes = DefaultAlign) =>
      LET bs == Range(Blocks(mem))
          H == m_block_alignment
      IN  /\ \A b \in bs : is_occupied(mem, b) <=> (b + H) \in DOMAIN live
          /\ \A p \in DOMAIN live :
               /\ is_occupied(mem, p - H)
               /\ (p - H) \in bs

\* C17 (as claimed): for every buffer size and alignment, after construction
\* and after any calls of alloc and free, every block's payload size is a
\* multiple of the alignment, and every pointer alloc returned is a multiple
\* of the alignment away from the base.
C17_Alignment ==
    (status = "run" /\ writes = 0) =>
      /\ \A b \in Range(Blocks(mem)) : get_size(mem, b) % m_align_bytes = 0
      /\ \A p \in DOMAIN live : p % m_align_bytes = 0
      /\ (call.op = "alloc" /\ call.ret # NULL) => call.ret % m_align_bytes = 0

\* ------------------------------------------------ requests of 32 bits
\* alloc takes num_bytes as a uint32_t; here it is a 32-bit word.

\* x >= y and x > y for words x, y read as unsigned numbers.
Geq32(x, y) == x.hi > y.hi \/ (x.hi = y.hi /\ x.lo >= y.lo)
Gt32(x, y) == x.hi > y.hi \/ (x.hi = y.hi /\ x.lo > y.lo)

\* x % n for a word x and 0 < n < 2^31.
Mod32(x, n) == (x.hi * (((Max31 % n) + 1) % n) + (x.lo % n)) % n

\* align_num_bytes for a word: (num_bytes / m_align_bytes) * m_align_bytes
\* is num_bytes less its remainder, and the sum is taken modulo 2^32.
align_num_bytes32(num_bytes) ==
    Add32(Sub32(num_bytes, Mod32(num_bytes, m_align_bytes)),
          m_align_bytes * (IF Mod32(num_bytes, m_align_bytes) > 0 THEN 1 ELSE 0))

\* alloc for a word num_bytes.  A rounded request of 2^31 or more is above
\* every get_size, so the loop ends with b = nullptr; one below 2^31 is a
\* multiple of the alignment, which the rounding in alloc_nonzero leaves as
\* it is.
alloc32(m, occ, num_bytes) ==
    IF num_bytes = Zero
    THEN [mem |-> m, occ |-> occ, ret |-> NULL, fault |-> FALSE]
    ELSE IF align_num_bytes32(num_bytes).hi = 1
         THEN [mem |-> m, occ |-> occ, ret |-> NULL, fault |-> FALSE]
         ELSE alloc_nonzero(m, occ, align_num_bytes32(num_bytes).lo)

\* num_bytes given to alloc: small ones, and ones around 2^31 and up to
\* 2^32 - 1.
WideRequests ==
    {Word(0, 1), Word(0, 16), Word(0, Max31 - 7), Word(0, Max31), Word(1, 0),
     Word(1, Max31 - 15), Word(1, Max31 - 7), Word(1, Max31)}

\* p = alloc(num_bytes) for a word num_bytes.
AllocWide(num_bytes) ==
    /\ status = "run"
    /\ ops < MaxOps
    /\ LET r == alloc32(mem, m_occupied, num_bytes)
       IN  \E survives \in (IF r.fault THEN BOOLEAN ELSE {TRUE}) :
             /\ mem' = r.mem
             /\ status' = (IF survives THEN "run" ELSE "crashed")
             /\ m_occupied' = (IF survives THEN r.occ ELSE m_occupied)
             /\ call' = [op |-> "alloc32", arg |-> num_bytes,
                         ret |-> IF survives THEN r.ret ELSE NULL,
                         occ0 |-> m_occupied]
             /\ live' = (IF survives /\ r.ret # NULL
                         THEN (r.ret :> [req |-> num_bytes,
                                         size |-> align_num_bytes32(num_bytes)])
                              @@ live
                         ELSE live)
    /\ ops' = ops + 1
    /\ UNCHANGED <<m_size, m_align_bytes, m_block_alignment, writes>>

AllocWideStep == \E num_bytes \in WideRequests : AllocWide(num_bytes)

\* Callers that ask for any number of bytes.
NextWide == AllocWideStep \/ FreeStep

SpecWide == Init /\ [][NextWide]_vars

\* C18 (as claimed): for every num_bytes of 32 bits the rounded request is
\* the smallest multiple of the alignment that is >= num_bytes; an
\* alloc(num_bytes) that returns a pointer hands out a block of at least
\* num_bytes bytes, and alloc(num_bytes) with num_bytes above the buffer
\* size returns null.
C18_RoundingNoWrap ==
    [][Called("alloc32") =>
         LET num_bytes == call'.arg
             rounded == align_num_bytes32(num_bytes)
         IN  /\ Geq32(rounded, num_bytes)
             /\ Mod32(rounded, m_align_bytes) = 0
             /\ Geq32(rounded, Word(0, m_align_bytes))
             /\ Gt32(num_bytes, Sub32(rounded, m_align_bytes))
             /\ (status' = "run" /\ call'.ret # NULL) =>
                  Geq32(Word(0, get_size(mem', call'.ret - m_block_alignment)),
                        num_bytes)
             /\ Gt32(num_bytes, Word(0, m_size)) =>
                  (status' = "run" /\ call'.ret = NULL)]_vars

\* The blocks on which alloc's loop (lines 85-87) runs its body, in order:
\* one step of the loop each.
RECURSIVE scan(_, _, _)
scan(m, b, num_bytes) ==
    IF b # NULL /\ (is_occupied(m, b) \/ get_size(m, b) < num_bytes)
    THEN <<b>> \o scan(m, get_next(m, b), num_bytes)
    ELSE <<>>

\* C19 (as claimed): every alloc(n), n >= 1, returns (a pointer or null);
\* its loop steps through blocks at strictly increasing addresses, get_next
\* is null for a block of size 0 and for one whose next address is at or
\* past base + size, and the loop makes at most as many steps as the buffer
\* has blocks (counting every header get_next can reach).
C19_ScanTerminates ==
    [][(status = "run" /\ m_align_bytes = DefaultAlign
        /\ Called("alloc") /\ call'.arg >= 1) =>
         LET sc == scan(mem, 0, align_num_bytes(call'.arg))
         IN  /\ status' = "run"
             /\ \A i \in 1..(Len(sc) - 1) : sc[i] < sc[i + 1]
             /\ \A b \in Range(walk(mem, 0)) :
                  (get_size(mem, b) = 0 \/ b + get_size(mem, b) >= m_size)
                    => get_next(mem, b) = NULL
             /\ Len(sc) <= Len(walk(mem, 0))]_vars

====
